---- MODULE Spec2Model ----
(***************************************************************************)
(* Model of hubverse_transform.model_output.ModelOutputHandler: the file   *)
(* name parser, the path sanitizer, the derivation of the output location  *)
(* from an S3 key, the reading and tagging of a raw table, and the add /   *)
(* delete pipelines acting on an output store.                             *)
(*                                                                         *)
(* Text is modelled at character level: a Python str is a sequence of      *)
(* one-character strings, so that re.match, re.split, str.strip,           *)
(* str.replace, urllib.parse.quote and the pathlib operations are computed *)
(* the way the code computes them.                                         *)
(***************************************************************************)
EXTENDS Integers, Sequences, FiniteSets, TLC

VARIABLES
    parseArg,   \* the file_name handed to a direct parse_file call
    parseRes,   \* what that call returned or raised (Pending before the call)
    built,      \* the arguments of the latest from_s3 call and of the constructor call it made
    lastCall,   \* the name of the method called last ("none" before any call)
    mo,         \* the ModelOutputHandler object of the current run (NoHandler if none)
    raised,     \* the exception the last call raised to its caller ("none" if it returned)
    returned,   \* the value the last call returned (None if it raised or returns nothing)
    store,      \* the output store: the set of [path, content] objects it holds
    ioLog,      \* the filesystem operations the last call performed, in order
    warnings,   \* the warning records the last call logged, in order
    model_output_file,           \* the content of the raw file the handler reads
    model_output_table,          \* the table read_file returned (NoTable before the call)
    updated_model_output_table,  \* the table add_columns returned (NoTable before the call)
    uriArg,     \* the path handed to a direct sanitize_uri call
    uriRes,     \* what successive sanitize_uri calls returned, each applied to the last result
    event,      \* the S3 event lambda_handler handled last (NoEvent before the first)
    calls,      \* the ModelOutputHandler methods lambda_handler called for it, in order
    caught,     \* the exception lambda_handler caught for it ("none" if none was raised)
    handlerLog, \* the log entries lambda_handler itself wrote for it, in order
    tasks,      \* the content of the hub's tasks.json, as HubConfig holds it in self.tasks
    task_id_values  \* what get_task_id_values returned for it (Pending before the call)

tableVars == <<model_output_file, model_output_table, updated_model_output_table>>

uriVars == <<uriArg, uriRes>>

lambdaVars == <<event, calls, caught, handlerLog>>

configVars == <<tasks, task_id_values>>

vars == <<parseArg, parseRes, built, lastCall, mo, raised, returned, store, ioLog, warnings,
          model_output_file, model_output_table, updated_model_output_table, uriArg, uriRes,
          event, calls, caught, handlerLog, tasks, task_id_values>>

-----------------------------------------------------------------------------
(* Bounds of the model *)

\* longest file name handed to parse_file, counted in pieces
MaxPieces == 4

\* most rows of a raw file handed to read_file
MaxRows == 2

\* the largest number of rounds of a tasks.json drawn
MaxRounds == 2

-----------------------------------------------------------------------------
(* Characters and strings *)

Digits == {"0", "1", "2", "3", "4", "5", "6", "7", "8", "9"}

\* str.strip() with no argument removes ASCII whitespace
Whitespace == {" ", "\t", "\n", "\r", "\f"}

\* the separator class [-_] of the model_id split pattern
Separators == {"-", "_"}

\* length of a text matched by \d{4}-\d{2}-\d{2}
RoundIdLen == 10

EmptyStr == << >>

RECURSIVE Flatten(_)
Flatten(ss) == IF ss = << >> THEN << >> ELSE Head(ss) \o Flatten(Tail(ss))

Drop(s, n) == SubSeq(s, n + 1, Len(s))

Take(s, n) == SubSeq(s, 1, n)

StartsWith(s, p) == Len(s) >= Len(p) /\ Take(s, Len(p)) = p

\* str.lstrip() / str.rstrip() / str.strip()
RECURSIVE LStrip(_)
LStrip(s) == IF s # << >> /\ Head(s) \in Whitespace THEN LStrip(Tail(s)) ELSE s

RECURSIVE RStrip(_)
RStrip(s) ==
    IF s # << >> /\ s[Len(s)] \in Whitespace THEN RStrip(Take(s, Len(s) - 1)) ELSE s

Strip(s) == RStrip(LStrip(s))

\* the longest prefix of s made of characters of cs (a greedy [cs]* match)
RECURSIVE RunLen(_, _)
RunLen(s, cs) == IF s # << >> /\ Head(s) \in cs THEN 1 + RunLen(Tail(s), cs) ELSE 0

-----------------------------------------------------------------------------
(* parse_file *)

\* re.match(r"^\d{4}-\d{2}-\d{2}", file_name) succeeds
MatchRoundId(s) ==
    /\ Len(s) >= RoundIdLen
    /\ \A i \in {1, 2, 3, 4, 6, 7, 9, 10} : s[i] \in Digits
    /\ s[5] = "-"
    /\ s[8] = "-"

\* re.split(rf"{lit}[-_]*", s): s is cut at every leftmost, non-overlapping
\* occurrence of lit followed by its greedy run of separators
RECURSIVE ReSplit(_, _)
ReSplit(s, lit) ==
    LET hits == {i \in 1..(Len(s) - Len(lit) + 1) : SubSeq(s, i, i + Len(lit) - 1) = lit}
    IN  IF hits = {} THEN <<s>>
        ELSE LET i    == CHOOSE h \in hits : \A g \in hits : h <= g
                 rest == Drop(s, i + Len(lit) - 1)
                 tail == Drop(rest, RunLen(rest, Separators))
             IN  <<Take(s, i - 1)>> \o ReSplit(tail, lit)

ParseError == [status |-> "ValueError", round_id |-> EmptyStr, model_id |-> EmptyStr]

\* a variant of parse_file that does not reject an empty last piece of the split
parse_file_NoEmptyCheck(file_name) ==
    IF ~MatchRoundId(file_name) THEN ParseError
    ELSE LET round_id       == Take(file_name, RoundIdLen)
             model_id_split == ReSplit(file_name, round_id)
         IN  IF model_id_split = << >> \/ Len(model_id_split) <= 1
             THEN ParseError
             ELSE [status   |-> "ok",
                   round_id |-> round_id,
                   model_id |-> Strip(model_id_split[Len(model_id_split)])]

\* ModelOutputHandler.parse_file
parse_file(file_name) ==
    IF ~MatchRoundId(file_name) THEN ParseError
    ELSE LET round_id       == Take(file_name, RoundIdLen)
             model_id_split == ReSplit(file_name, round_id)
         IN  IF \/ model_id_split = << >>
                \/ Len(model_id_split) <= 1
                \/ model_id_split[Len(model_id_split)] = EmptyStr
             THEN ParseError
             ELSE [status   |-> "ok",
                   round_id |-> round_id,
                   model_id |-> Strip(model_id_split[Len(model_id_split)])]

-----------------------------------------------------------------------------
(* pathlib and cloudpathlib *)

\* str.split(c)
RECURSIVE SplitOn(_, _)
SplitOn(s, c) ==
    LET hits == {i \in 1..Len(s) : s[i] = c}
    IN  IF hits = {} THEN <<s>>
        ELSE LET i == CHOOSE h \in hits : \A g \in hits : h <= g
             IN  <<Take(s, i - 1)>> \o SplitOn(Drop(s, i), c)

\* c.join(segs)
RECURSIVE Join(_, _)
Join(segs, c) ==
    IF segs = << >> THEN EmptyStr
    ELSE IF Len(segs) = 1 THEN Head(segs)
    ELSE Head(segs) \o <<c>> \o Join(Tail(segs), c)

\* the segments of a sequence of segments that pathlib keeps: empty segments and
\* "." segments are dropped
RECURSIVE KeptSegments(_)
KeptSegments(segs) ==
    IF segs = << >> THEN << >>
    ELSE IF Head(segs) = EmptyStr \/ Head(segs) = <<".">> THEN KeptSegments(Tail(segs))
    ELSE <<Head(segs)>> \o KeptSegments(Tail(segs))

\* PurePosixPath(s).parts: the root "/" (if s is absolute) and the kept segments
PathParts(s) ==
    (IF s # EmptyStr /\ Head(s) = "/" THEN << <<"/">> >> ELSE << >>)
        \o KeptSegments(SplitOn(s, "/"))

\* str(PurePosixPath) of the given parts
PathStr(parts) ==
    IF parts = << >> THEN <<".">>
    ELSE IF Head(parts) = <<"/">> THEN <<"/">> \o Join(Tail(parts), "/")
    ELSE Join(parts, "/")

\* PurePosixPath.name
PathName(parts) ==
    IF parts = << >> \/ parts[Len(parts)] = <<"/">> THEN EmptyStr ELSE parts[Len(parts)]

\* the index of the last "." of a name that separates a suffix (0 if there is none):
\* pathlib takes no suffix from a leading or a trailing dot
SuffixDot(name) ==
    LET dots == {i \in 1..Len(name) : name[i] = "."}
    IN  IF dots = {} THEN 0
        ELSE LET i == CHOOSE d \in dots : \A e \in dots : e <= d
             IN  IF 1 < i /\ i < Len(name) THEN i ELSE 0

\* PurePosixPath.suffix and PurePosixPath.stem of a name
Suffix(name) == IF SuffixDot(name) = 0 THEN EmptyStr ELSE Drop(name, SuffixDot(name) - 1)

Stem(name) == IF SuffixDot(name) = 0 THEN name ELSE Take(name, SuffixDot(name) - 1)

\* PurePosixPath(a) / b for a relative b
PathJoin(a, b) == PathStr(PathParts(a) \o PathParts(b))

S3Scheme == <<"s", "3", ":", "/", "/">>

\* the PurePosixPath a cloud path dispatches stem and suffix to: "/" + bucket + "/" + key
CloudPosixParts(uri) == PathParts(<<"/">> \o Drop(uri, Len(S3Scheme)))

\* S3Path / PurePosixPath
CloudJoin(uri, rel) ==
    S3Scheme \o Drop(PathStr(CloudPosixParts(uri) \o PathParts(rel)), 1)

-----------------------------------------------------------------------------
(* urllib.parse.quote and the URI decoding of pyarrow.fs.FileSystem.from_uri *)

Letters == {"a", "b", "c", "e", "p", "q", "r", "s", "t", "u", "v", "w", "x",
            "A", "C", "S", "V"}

\* characters quote() never encodes, and the safe=":/" of sanitize_uri
AlwaysSafe == Letters \cup Digits \cup {"_", ".", "-", "~"}

SafeChars == {":", "/"}

\* the percent code of a character quote() encodes: its UTF-8 bytes in hexadecimal
PercentCode(c) ==
    CASE c = " " -> <<"%", "2", "0">>
      [] c = "%" -> <<"%", "2", "5">>
      [] c = "á" -> <<"%", "C", "3", "%", "A", "1">>

\* urllib.parse.quote(s, safe=":/")
RECURSIVE Quote(_)
Quote(s) ==
    IF s = << >> THEN << >>
    ELSE (IF Head(s) \in AlwaysSafe \cup SafeChars THEN <<Head(s)>> ELSE PercentCode(Head(s)))
             \o Quote(Tail(s))

\* percent-decoding of a URI path
RECURSIVE Unquote(_)
Unquote(s) ==
    IF s = << >> THEN << >>
    ELSE IF StartsWith(s, <<"%", "2", "0">>) THEN <<" ">> \o Unquote(Drop(s, 3))
    ELSE IF StartsWith(s, <<"%", "2", "5">>) THEN <<"%">> \o Unquote(Drop(s, 3))
    ELSE IF StartsWith(s, <<"%", "C", "3", "%", "A", "1">>) THEN <<"á">> \o Unquote(Drop(s, 6))
    ELSE <<Head(s)>> \o Unquote(Tail(s))

RECURSIVE RemoveTrailingSlash(_)
RemoveTrailingSlash(s) ==
    IF s # << >> /\ s[Len(s)] = "/" THEN RemoveTrailingSlash(Take(s, Len(s) - 1)) ELSE s

\* a variant of from_uri that returns the path as the URI writes it
FromUriPath_Encoded(uri) == RemoveTrailingSlash(Drop(uri, Len(S3Scheme)))

\* the path of fs.FileSystem.from_uri(uri) for an s3:// URI: bucket and key,
\* percent-decoded, without a trailing slash
FromUriPath(uri) == RemoveTrailingSlash(Unquote(Drop(uri, Len(S3Scheme))))

\* str.replace(old, new): every non-overlapping occurrence, left to right
RECURSIVE Replace(_, _, _)
Replace(s, old, new) ==
    IF old = << >> \/ s = << >> THEN s
    ELSE IF StartsWith(s, old) THEN new \o Replace(Drop(s, Len(old)), old, new)
    ELSE <<Head(s)>> \o Replace(Tail(s), old, new)

\* ModelOutputHandler.sanitize_uri of a cloud path
sanitize_uri(uri) ==
    LET stem         == Stem(PathName(CloudPosixParts(uri)))
        clean_path   == Replace(uri, stem, Strip(stem))
        clean_string == Strip(clean_path)
    IN  Quote(clean_string)

-----------------------------------------------------------------------------
(* ModelOutputHandler: from_s3 and the constructor *)

Dot == <<".">>

Raw == <<"r", "a", "w">>

CsvExt == <<".", "c", "s", "v">>

ParquetExt == <<".", "p", "a", "r", "q", "u", "e", "t">>

PqtExt == <<".", "p", "q", "t">>

\* a variant of the list of supported file types that also admits .txt
SupportedTypes_WithTxt == {CsvExt, ParquetExt, PqtExt, <<".", "t", "x", "t">>}

\* the file types the constructor accepts
SupportedTypes == {CsvExt, ParquetExt, PqtExt}

NoHandler == [status |-> "none"]

NoInit == [called |-> FALSE]

None == <<"None">>

FsFromUri(uri) == [op |-> "FileSystem.from_uri", path |-> uri]

\* a variant of raise_user_warning that logs the warning and returns
raise_user_warning_LogOnly(path, msg) ==
    [raised |-> "none", warnings |-> <<[message |-> msg, file |-> path]>>]

\* ModelOutputHandler.raise_user_warning: the warning is logged, then raised
raise_user_warning(path, msg) ==
    [raised |-> "UserWarning", warnings |-> <<[message |-> msg, file |-> path]>>]

\* a variant of the constructor that parses the file name before it looks at the
\* extension
Construct_ParseFirst(hub_path, mo_path, output_path) ==
    LET input_path          == CloudJoin(hub_path, mo_path)
        sanitized_input_uri == sanitize_uri(input_path)
        input_file          == FromUriPath(sanitized_input_uri)
        sanitized_output    == sanitize_uri(output_path)
        file_path           == PathParts(input_file)
        file_name           == Stem(PathName(file_path))
        file_type           == Suffix(PathName(file_path))
        file_parts          == parse_file(file_name)
        io                  == <<FsFromUri(sanitized_input_uri), FsFromUri(sanitized_output)>>
        Warned(msg)         == [raised   |-> raise_user_warning(input_path, msg).raised,
                                warnings |-> raise_user_warning(input_path, msg).warnings,
                                io       |-> io,
                                mo       |-> NoHandler]
    IN  IF file_parts.status # "ok"
        THEN [raised |-> "ValueError", warnings |-> << >>, io |-> io, mo |-> NoHandler]
        ELSE IF Suffix(PathName(CloudPosixParts(input_path))) = EmptyStr
        THEN Warned("Input file has no extension")
        ELSE IF file_type \notin SupportedTypes
        THEN Warned("Input file type is not supported")
        ELSE [raised   |-> "none",
              warnings |-> << >>,
              io       |-> io,
              mo       |-> [status      |-> "ok",
                            input_file  |-> input_file,
                            output_path |-> FromUriPath(sanitized_output),
                            file_name   |-> file_name,
                            file_type   |-> file_type,
                            round_id    |-> file_parts.round_id,
                            model_id    |-> file_parts.model_id]]

\* ModelOutputHandler.__init__: what it raises, logs and does, and the object it leaves
Construct(hub_path, mo_path, output_path) ==
    LET input_path          == CloudJoin(hub_path, mo_path)
        sanitized_input_uri == sanitize_uri(input_path)
        input_file          == FromUriPath(sanitized_input_uri)
        sanitized_output    == sanitize_uri(output_path)
        file_path           == PathParts(input_file)
        file_name           == Stem(PathName(file_path))
        file_type           == Suffix(PathName(file_path))
        file_parts          == parse_file(file_name)
        io                  == <<FsFromUri(sanitized_input_uri), FsFromUri(sanitized_output)>>
        Warned(msg)         == [raised   |-> raise_user_warning(input_path, msg).raised,
                                warnings |-> raise_user_warning(input_path, msg).warnings,
                                io       |-> io,
                                mo       |-> NoHandler]
    IN  IF Suffix(PathName(CloudPosixParts(input_path))) = EmptyStr
        THEN Warned("Input file has no extension")
        ELSE IF file_type \notin SupportedTypes
        THEN Warned("Input file type is not supported")
        ELSE IF file_parts.status # "ok"
        THEN [raised |-> "ValueError", warnings |-> << >>, io |-> io, mo |-> NoHandler]
        ELSE [raised   |-> "none",
              warnings |-> << >>,
              io       |-> io,
              mo       |-> [status      |-> "ok",
                            input_file  |-> input_file,
                            output_path |-> FromUriPath(sanitized_output),
                            file_name   |-> file_name,
                            file_type   |-> file_type,
                            round_id    |-> file_parts.round_id,
                            model_id    |-> file_parts.model_id]]

\* the constructor arguments from_s3 derives from the parts of the key that follow
\* the origin prefix
InitArgs(bucket_name, s3_mo_path, relative) ==
    LET s3_bucket_path   == S3Scheme \o bucket_name
        destination_path == PathStr(IF relative = << >> THEN << >>
                                    ELSE Take(relative, Len(relative) - 1))
        s3_output_path   == S3Scheme \o bucket_name \o <<"/">> \o destination_path
    IN  [called      |-> TRUE,
         hub_path    |-> s3_bucket_path,
         mo_path     |-> PathStr(s3_mo_path),
         output_path |-> s3_output_path]

\* the parts left after every leading part equal to the prefix is removed
RECURSIVE StripLeading(_, _)
StripLeading(parts, prefix) ==
    IF parts # << >> /\ Head(parts) = prefix THEN StripLeading(Tail(parts), prefix)
    ELSE parts

\* a variant of from_s3 that removes every leading segment equal to the prefix
from_s3_StripAll(bucket_name, s3_key, origin_prefix) ==
    LET s3_mo_path == PathParts(s3_key)
    IN  IF s3_mo_path = << >>
        THEN [raised |-> "IndexError", init |-> NoInit]
        ELSE IF s3_mo_path[1] # origin_prefix
        THEN [raised |-> "ValueError", init |-> NoInit]
        ELSE [raised |-> "none",
              init   |-> InitArgs(bucket_name, s3_mo_path,
                                  StripLeading(s3_mo_path, origin_prefix))]

\* a variant of from_s3 without the origin prefix check
from_s3_NoPrefixCheck(bucket_name, s3_key, origin_prefix) ==
    LET s3_mo_path == PathParts(s3_key)
    IN  IF s3_mo_path = << >>
        THEN [raised |-> "IndexError", init |-> NoInit]
        ELSE [raised |-> "none",
              init   |-> InitArgs(bucket_name, s3_mo_path, Tail(s3_mo_path))]

\* a variant of from_s3 that keeps the origin prefix in the output path
from_s3_KeepPrefix(bucket_name, s3_key, origin_prefix) ==
    LET s3_mo_path == PathParts(s3_key)
    IN  IF s3_mo_path = << >>
        THEN [raised |-> "IndexError", init |-> NoInit]
        ELSE IF s3_mo_path[1] # origin_prefix
        THEN [raised |-> "ValueError", init |-> NoInit]
        ELSE [raised |-> "none",
              init   |-> InitArgs(bucket_name, s3_mo_path, s3_mo_path)]

\* ModelOutputHandler.from_s3 up to its constructor call: the exception it raises
\* itself, or the arguments it passes to the constructor
from_s3(bucket_name, s3_key, origin_prefix) ==
    LET s3_mo_path == PathParts(s3_key)
    IN  IF s3_mo_path = << >>
        THEN [raised |-> "IndexError", init |-> NoInit]
        ELSE IF s3_mo_path[1] # origin_prefix
        THEN [raised |-> "ValueError", init |-> NoInit]
        ELSE [raised |-> "none",
              init   |-> InitArgs(bucket_name, s3_mo_path, Tail(s3_mo_path))]

-----------------------------------------------------------------------------
(* The add and delete pipelines on the output store *)

ParquetName(file_name) == file_name \o ParquetExt

\* write_parquet: transformed_file_path
WritePath(h) == h.output_path \o <<"/">> \o ParquetName(h.file_name)

\* delete_model_output: mo_path
DeletePath(h) == PathJoin(h.output_path, ParquetName(h.file_name))

\* the objects of a store at a path (an object store keys its objects by the
\* literal path string)
ObjectsAt(st, path) == {o \in st : o.path = path}

\* the table add_columns returns for the file read_file loads: the rows of the
\* raw file, each tagged with the handler's round_id and model_id
TransformedTable(h) ==
    [source |-> h.input_file, round_id |-> h.round_id, model_id |-> h.model_id]

\* a variant of the write that leaves the object already at the path in place
PutObject_KeepOld(st, path, content) == st \cup {[path |-> path, content |-> content]}

\* fs_output.open_output_stream + pq.write_table: the object at the path is replaced
PutObject(st, path, content) ==
    (st \ ObjectsAt(st, path)) \cup {[path |-> path, content |-> content]}

-----------------------------------------------------------------------------
(* Tables: read_file and add_columns                                         *)
(*                                                                           *)
(* A table is a sequence of columns [name, type, cells]; a cell is a record  *)
(* [null, v] whose v is the text of the value (EmptyStr for a null). The     *)
(* columns of a raw CSV file have type "text" and hold the raw cell texts.   *)

NoFile == [format |-> "none"]

\* no table yet: the value of a table variable before the call that sets it
NoTable == << >>

NullCell == [null |-> TRUE, v |-> EmptyStr]

Cell(v) == [null |-> FALSE, v |-> v]

Column(name, type, cells) == [name |-> name, type |-> type, cells |-> cells]

Repeat(x, n) == [i \in 1..n |-> x]

\* pa.Table.num_rows
NumRows(columns) == IF columns = << >> THEN 0 ELSE Len(columns[1].cells)

\* csv.ConvertOptions(null_values=...)
NullValues ==
    {<<"n", "a">>, <<"N", "A">>, EmptyStr, <<" ">>, <<"n", "u", "l", "l">>,
     <<"N", "u", "l", "l">>, <<"N", "a", "N">>, <<"n", "a", "n">>}

\* csv.ConvertOptions(column_types=...) and the field names of the Parquet branch
StringColumns == {"location", "output_type_id"}

IsInteger(text) == text # EmptyStr /\ \A i \in 1..Len(text) : text[i] \in Digits

IsDecimal(text) ==
    /\ Cardinality({i \in 1..Len(text) : text[i] = "."}) = 1
    /\ \E i \in 1..Len(text) : text[i] \in Digits
    /\ \A i \in 1..Len(text) : text[i] \in Digits \cup {"."}

\* the type the CSV reader infers for a column that has no entry in column_types:
\* null when every cell is a null token, else the first of int64, double, string
\* that every other cell converts to
InferType(texts) ==
    LET values == {texts[i] : i \in {j \in 1..Len(texts) : texts[j] \notin NullValues}}
    IN  IF values = {} THEN "null"
        ELSE IF \A t \in values : IsInteger(t) THEN "int64"
        ELSE IF \A t \in values : IsInteger(t) \/ IsDecimal(t) THEN "double"
        ELSE "string"

RECURSIVE StripLeadingZeros(_)
StripLeadingZeros(digits) ==
    IF Len(digits) > 1 /\ Head(digits) = "0" THEN StripLeadingZeros(Tail(digits)) ELSE digits

RECURSIVE StripTrailingZeros(_)
StripTrailingZeros(digits) ==
    IF digits # << >> /\ digits[Len(digits)] = "0"
    THEN StripTrailingZeros(Take(digits, Len(digits) - 1))
    ELSE digits

\* the number a CSV cell text converts to, written in its shortest decimal form
NumberText(text) ==
    LET dot      == IF IsInteger(text) THEN Len(text) + 1
                    ELSE CHOOSE i \in 1..Len(text) : text[i] = "."
        whole    == StripLeadingZeros(IF dot = 1 THEN <<"0">> ELSE Take(text, dot - 1))
        fraction == StripTrailingZeros(Drop(text, dot))
    IN  IF fraction = << >> THEN whole ELSE whole \o <<".">> \o fraction

\* a variant of the conversion in which a string column keeps every text
ConvertCell_StringsNotNull(text, type) ==
    IF type = "string" THEN Cell(text)
    ELSE IF text \in NullValues THEN NullCell
    ELSE Cell(NumberText(text))

\* the conversion of one CSV cell text to a column type (strings_can_be_null=True)
ConvertCell(text, type) ==
    IF text \in NullValues THEN NullCell
    ELSE IF type = "string" THEN Cell(text)
    ELSE Cell(NumberText(text))

\* csv.read_csv with the convert options of read_file, for one column
ReadCsvColumn(column) ==
    LET texts == [i \in 1..Len(column.cells) |-> column.cells[i].v]
        type  == IF column.name \in StringColumns THEN "string" ELSE InferType(texts)
    IN  Column(column.name, type, [i \in 1..Len(texts) |-> ConvertCell(texts[i], type)])

ReadCsv(columns) == [i \in 1..Len(columns) |-> ReadCsvColumn(columns[i])]

\* pa.Schema.get_field_index: the 0-based index of the one field of that name, -1
\* when there is none or more than one
GetFieldIndex(columns, field_name) ==
    LET found == {i \in 1..Len(columns) : columns[i].name = field_name}
    IN  IF Cardinality(found) = 1 THEN (CHOOSE i \in found : TRUE) - 1 ELSE -1

\* a variant of the Parquet branch that reads the file with its own schema
ReadParquet_OwnSchema(columns) == columns

\* a variant of the Parquet branch that treats the cells of the string columns
\* the way the CSV branch does
ReadParquet_NullTokens(columns) ==
    [i \in 1..Len(columns) |->
        IF \E field_name \in StringColumns : GetFieldIndex(columns, field_name) = i - 1
        THEN Column(columns[i].name, "string",
                    [r \in 1..Len(columns[i].cells) |->
                        IF columns[i].cells[r].null THEN NullCell
                        ELSE ConvertCell(columns[i].cells[r].v, "string")])
        ELSE columns[i]]

\* the Parquet branch of read_file: the file schema with the fields location and
\* output_type_id set to string, and the table read with that schema (a cast of a
\* number to string gives its decimal text, a null stays null)
ReadParquet(columns) ==
    [i \in 1..Len(columns) |->
        IF \E field_name \in StringColumns : GetFieldIndex(columns, field_name) = i - 1
        THEN Column(columns[i].name, "string", columns[i].cells)
        ELSE columns[i]]

\* ModelOutputHandler.read_file on the content of the input file
read_file(h, file) ==
    IF h.file_type = CsvExt THEN ReadCsv(file.columns) ELSE ReadParquet(file.columns)

\* pa.array of num_rows Python strings (an empty list gives an array of null type)
StringArray(name, value, num_rows) ==
    Column(name, IF num_rows = 0 THEN "null" ELSE "string", Repeat(Cell(value), num_rows))

\* a variant of new_columns that fills each column with the other identifier
NewColumns_Swapped(h, num_rows) ==
    <<StringArray("round_id", h.model_id, num_rows),
      StringArray("model_id", h.round_id, num_rows)>>

\* the dict new_columns of add_columns, in insertion order
NewColumns(h, num_rows) ==
    <<StringArray("round_id", h.round_id, num_rows),
      StringArray("model_id", h.model_id, num_rows)>>

ColumnNamed(columns, name) == columns[CHOOSE i \in 1..Len(columns) : columns[i].name = name]

HasColumn(columns, name) == \E i \in 1..Len(columns) : columns[i].name = name

\* the columns of new_columns whose name is no key of existing_columns, in order
RECURSIVE FreshColumns(_, _)
FreshColumns(existing_columns, new_columns) ==
    IF new_columns = << >> THEN << >>
    ELSE (IF HasColumn(existing_columns, Head(new_columns).name) THEN << >>
          ELSE <<Head(new_columns)>>)
         \o FreshColumns(existing_columns, Tail(new_columns))

\* existing_columns | new_columns: a key of the left dict keeps its place and takes
\* the value of the right dict; the other keys of the right dict follow in order
DictMerge(existing_columns, new_columns) ==
    [i \in 1..Len(existing_columns) |->
        IF HasColumn(new_columns, existing_columns[i].name)
        THEN ColumnNamed(new_columns, existing_columns[i].name)
        ELSE existing_columns[i]]
    \o FreshColumns(existing_columns, new_columns)

\* ModelOutputHandler.add_columns
add_columns(h, table) == DictMerge(table, NewColumns(h, NumRows(table)))

-----------------------------------------------------------------------------
(* Inputs *)

Date == <<"2", "4", "2", "0", "-", "0", "1", "-", "0", "1">>

Pieces == {Date, <<"-">>, <<"_">>, <<" ">>, <<"a">>, <<"1">>}

\* file names with a character outside ASCII
SpecialNames ==
    {Date \o <<"-", "a", " ", "á">>,
     Date \o <<"-", "á", "a", " ">>,
     Date \o <<"_", "á", " ", "á">>}

FileNames ==
    {Flatten(ps) : ps \in UNION {[1..n -> Pieces] : n \in 0..MaxPieces}} \cup SpecialNames

BucketName == <<"b">>

OriginPrefixes == {Raw, <<"x">>}

KeyDirs == {<< >>, << <<"p">> >>, << Raw >>}

KeyFiles ==
    {Date \o <<"-", "a">> \o CsvExt,
     Date \o <<"-", "a">> \o ParquetExt,
     Date \o <<"-", "a", ".", "t", "x", "t">>,
     Date \o <<"-", "a">>,
     <<"a">> \o CsvExt}

\* the S3 object keys of the events: files under the raw prefix, directly or in
\* a directory (one of them itself named raw), a file under another first
\* segment, a folder, and the empty key
Keys ==
    {Join(<<Raw>> \o dirs \o <<file>>, "/") : dirs \in KeyDirs, file \in KeyFiles}
    \cup {<<"x", "/", "p", "/">> \o Date \o <<"-", "a">> \o CsvExt,
          Raw \o <<"/", "p", "/">>,
          EmptyStr}

StaleTable == [source |-> EmptyStr, round_id |-> EmptyStr, model_id |-> EmptyStr]

\* objects the output store may hold before the first run
InitialObjects ==
    {[path |-> BucketName \o <<"/">> \o Date \o <<"-", "a">> \o ParquetExt,
      content |-> StaleTable],
     [path |-> BucketName \o <<"/", "p", "/">> \o Date \o <<"-", "a">> \o ParquetExt,
      content |-> StaleTable],
     [path |-> BucketName \o <<"/", "p", "/", "a">> \o ParquetExt,
      content |-> StaleTable]}

Pending == [status |-> "pending"]

\* the keys of the handlers whose output is written: a file of each supported
\* type, directly under raw and up to three directories deep
WriteKeys ==
    {Join(<<Raw>> \o dirs \o <<Date \o <<"-", "a">> \o ext>>, "/") :
        dirs \in {<< >>, << <<"p">> >>, << <<"p">>, <<"q">> >>, << <<"p">>, <<"q">>, <<"r">> >>},
        ext \in SupportedTypes}

\* a handler with the filesystem of its output: the handler from_s3 builds has an
\* S3 filesystem; the handler the constructor builds for the same hub kept in a
\* local directory /b has a local filesystem and absolute paths
WithFs(h, fs_output) ==
    [status      |-> h.status,
     input_file  |-> IF fs_output = "local" THEN <<"/">> \o h.input_file ELSE h.input_file,
     output_path |-> IF fs_output = "local" THEN <<"/">> \o h.output_path ELSE h.output_path,
     file_name   |-> h.file_name,
     file_type   |-> h.file_type,
     round_id    |-> h.round_id,
     model_id    |-> h.model_id,
     fs_output   |-> fs_output]

WriteHandlers ==
    {WithFs(LET r == from_s3(BucketName, k, Raw)
            IN  Construct(r.init.hub_path, r.init.mo_path, r.init.output_path).mo, fs) :
        k \in WriteKeys, fs \in {"s3", "local"}}

Directory == [source |-> <<"directory">>, round_id |-> EmptyStr, model_id |-> EmptyStr]

\* the directory a path lies in, and the directories above a path
ParentDir(path) ==
    LET parts == PathParts(path) IN PathStr(Take(parts, Len(parts) - 1))

Ancestors(path) ==
    LET parts == PathParts(path)
    IN  {PathStr(Take(parts, n)) : n \in 2..(Len(parts) - 1)}

\* the stores a handler may find before it writes: on S3 there are no
\* directories; a local store holds the hub directory and the directories
\* above the output file down to some depth; either holds a file at the output
\* path or not
StoresBefore(h) ==
    {dirs \cup old :
        dirs \in IF h.fs_output = "s3" THEN {{}}
                 ELSE {{[path |-> d, content |-> Directory] :
                          d \in {a \in Ancestors(WritePath(h)) : Len(a) <= n}} :
                       n \in Len(<<"/">> \o BucketName)..Len(WritePath(h))},
        old \in {{}, {[path |-> WritePath(h), content |-> StaleTable]}}}


\* directory names of the paths handed to sanitize_uri
UriDirs == {<<"p">>, <<"a", " ">>, <<" ", "a", " ">>, <<"a", " ", "b">>, <<"a", "%", "2", "0", "b">>}

\* file stems of those paths: with and without whitespace around and inside, and
\* one that is already percent-encoded
UriStems ==
    {<<"a">>, <<"a", " ">>, <<" ", "a">>, <<" ", "a", " ">>, <<"a", " ", "b">>,
     <<"a", "%", "2", "0", "b">>}

UriSuffixes == {EmptyStr, CsvExt, CsvExt \o <<" ">>}

\* the S3 paths handed to sanitize_uri: a file directly in the bucket or in one
\* directory
UriPaths ==
    {S3Scheme \o BucketName \o <<"/">> \o Join(dirs \o <<stem \o suffix>>, "/") :
        dirs \in {<< >>} \cup {<<d>> : d \in UriDirs},
        stem \in UriStems, suffix \in UriSuffixes}


\* the handlers whose files are read: one per supported extension
TableKeys ==
    {Raw \o <<"/", "p", "/">> \o Date \o <<"-", "a">> \o ext : ext \in SupportedTypes}

TableHandlers ==
    {LET r == from_s3(BucketName, k, Raw)
     IN  Construct(r.init.hub_path, r.init.mo_path, r.init.output_path).mo : k \in TableKeys}

\* raw CSV cell texts: the null tokens, and texts that read as an integer, as a
\* decimal number and as neither
CellTexts == NullValues \cup {<<"0", "2">>, <<"0", ".", "0">>, <<"1">>, <<"a">>}

\* values of a Parquet column of a type
ParquetValues(type) ==
    CASE type = "int64"  -> {<<"2">>}
      [] type = "double" -> {<<"0", ".", "5">>}
      [] type = "string" -> {<<"0", "2">>, <<"a">>, <<"N", "A">>, EmptyStr}

ParquetTypes == {"int64", "double", "string"}

\* names of the column whose content varies
ColumnNames == {"location", "output_type_id", "round_id", "target"}

\* the columns of a raw file: one column of any name and content, optionally after
\* a numeric column value and before a text column model_id
CsvFiles ==
    {[format  |-> "csv",
      columns |-> (IF before THEN <<Column("value", "text", Repeat(Cell(<<"0", ".", "0">>), n))>>
                   ELSE << >>)
                  \o <<Column(name, "text", [i \in 1..n |-> Cell(texts[i])])>>
                  \o (IF after THEN <<Column("model_id", "text", Repeat(Cell(<<"a">>), n))>>
                      ELSE << >>)] :
        <<n, texts>> \in UNION {{<<m, t>> : t \in [1..m -> CellTexts]} : m \in 0..MaxRows},
        name \in ColumnNames, before \in BOOLEAN, after \in BOOLEAN}

ParquetFiles ==
    {[format  |-> "parquet",
      columns |-> (IF before THEN <<Column("value", "double", Repeat(Cell(<<"0", ".", "5">>), n))>>
                   ELSE << >>)
                  \o <<Column(name, type, cells)>>
                  \o (IF after THEN <<Column("model_id", "string", Repeat(Cell(<<"a">>), n))>>
                      ELSE << >>)] :
        <<n, type, cells>> \in
            UNION {{<<m, ty, c>> : c \in [1..m -> {NullCell} \cup {Cell(v) : v \in ParquetValues(ty)}]} :
                   m \in 0..MaxRows, ty \in ParquetTypes},
        name \in ColumnNames, before \in BOOLEAN, after \in BOOLEAN}

\* the files a handler of a file type may be given
FilesOfType(file_type) == IF file_type = CsvExt THEN CsvFiles ELSE ParquetFiles


\* no event handled yet
NoEvent == [eventName |-> EmptyStr, bucket |-> EmptyStr, key |-> EmptyStr]

InitNoEvent ==
    /\ event = NoEvent
    /\ calls = << >>
    /\ caught = "none"
    /\ handlerLog = << >>

\* no hub configuration loaded
NoConfig == [loaded |-> FALSE]

InitNoConfig ==
    /\ tasks = NoConfig
    /\ task_id_values = Pending

-----------------------------------------------------------------------------
(* The specification of the calls that take one file name: parse_file, and the *)
(* constructor for a .csv file of that name                                    *)

InitIdle ==
    /\ built = [called |-> FALSE]
    /\ lastCall = "none"
    /\ mo = NoHandler
    /\ raised = "none"
    /\ returned = None
    /\ ioLog = << >>
    /\ warnings = << >>
    /\ model_output_file = NoFile
    /\ model_output_table = NoTable
    /\ updated_model_output_table = NoTable
    /\ uriArg = EmptyStr
    /\ uriRes = << >>
    /\ InitNoEvent
    /\ InitNoConfig

InitParse ==
    /\ parseArg \in FileNames
    /\ parseRes = Pending
    /\ store = {}
    /\ InitIdle

\* a direct call of parse_file on the chosen file name
ParseFileCall ==
    /\ parseRes = Pending
    /\ parseRes' = parse_file(parseArg)
    /\ UNCHANGED <<parseArg, built, lastCall, mo, raised, returned, store, ioLog, warnings>>
    /\ UNCHANGED <<tableVars, uriVars, lambdaVars, configVars>>

\* ModelOutputHandler(hub_path, mo_path, output_path) for the file of the chosen
\* name, with a supported extension, under the raw prefix of the bucket
ConstructCall ==
    LET c == Construct(S3Scheme \o BucketName,
                       Raw \o <<"/">> \o parseArg \o CsvExt,
                       S3Scheme \o BucketName \o <<"/", "p">>)
    IN  /\ lastCall = "none"
        /\ lastCall' = "__init__"
        /\ mo' = c.mo
        /\ raised' = c.raised
        /\ ioLog' = c.io
        /\ warnings' = c.warnings
        /\ UNCHANGED <<parseArg, parseRes, built, returned, store>>
        /\ UNCHANGED <<tableVars, uriVars, lambdaVars, configVars>>

NextParse == ParseFileCall \/ ConstructCall

SpecParse == InitParse /\ [][NextParse]_vars

-----------------------------------------------------------------------------
(* The specification of the runs on the output store *)

Init ==
    /\ parseArg = EmptyStr
    /\ parseRes = Pending
    /\ store \in SUBSET InitialObjects
    /\ InitIdle

\* from_s3 with the constructor call it makes, for every event of the model
\* (evaluated once per event)
FromS3Run ==
    [s3_key \in Keys, origin_prefix \in OriginPrefixes |->
        LET r == from_s3(BucketName, s3_key, origin_prefix)
            c == Construct(r.init.hub_path, r.init.mo_path, r.init.output_path)
        IN  IF r.raised # "none"
            THEN [raised |-> r.raised, warnings |-> << >>, io |-> << >>,
                  mo |-> NoHandler, init |-> r.init]
            ELSE [raised |-> c.raised, warnings |-> c.warnings, io |-> c.io,
                  mo |-> c.mo, init |-> r.init]]

\* ModelOutputHandler.from_s3(bucket_name, s3_key, origin_prefix), constructor included
FromS3(s3_key, origin_prefix) ==
    LET run == FromS3Run[s3_key, origin_prefix]
    IN  /\ lastCall' = "from_s3"
        /\ built' = [called        |-> TRUE,
                     bucket_name   |-> BucketName,
                     s3_key        |-> s3_key,
                     origin_prefix |-> origin_prefix,
                     init          |-> run.init]
        /\ raised' = run.raised
        /\ mo' = run.mo
        /\ ioLog' = run.io
        /\ warnings' = run.warnings
        /\ returned' = None
        /\ UNCHANGED <<parseArg, parseRes, store>>
        /\ UNCHANGED <<tableVars, uriVars, lambdaVars, configVars>>

\* mo.add_model_output(): read_file, add_columns, write_parquet
AddModelOutput ==
    /\ mo.status = "ok"
    /\ lastCall' = "add_model_output"
    /\ store' = PutObject(store, WritePath(mo), TransformedTable(mo))
    /\ ioLog' = <<[op |-> "open_input", path |-> mo.input_file],
                  [op |-> "open_output_stream", path |-> WritePath(mo)]>>
    /\ warnings' = << >>
    /\ raised' = "none"
    /\ returned' = WritePath(mo)
    /\ UNCHANGED <<parseArg, parseRes, built, mo>>
    /\ UNCHANGED <<tableVars, uriVars, lambdaVars, configVars>>

\* mo.delete_model_output()
DeleteModelOutput ==
    /\ mo.status = "ok"
    /\ lastCall' = "delete_model_output"
    /\ ioLog' = <<[op |-> "delete_file", path |-> DeletePath(mo)]>>
    /\ IF ObjectsAt(store, DeletePath(mo)) # {}
       THEN /\ store' = store \ ObjectsAt(store, DeletePath(mo))
            /\ warnings' = << >>
            /\ raised' = "none"
       ELSE LET w == raise_user_warning(DeletePath(mo),
                                        "Model output file not found for deletion")
            IN  /\ store' = store
                /\ warnings' = w.warnings
                /\ raised' = w.raised
    /\ returned' = None
    /\ UNCHANGED <<parseArg, parseRes, built, mo>>
    /\ UNCHANGED <<tableVars, uriVars, lambdaVars, configVars>>

Next ==
    \/ \E k \in Keys, p \in OriginPrefixes : FromS3(k, p)
    \/ AddModelOutput
    \/ DeleteModelOutput

Spec == Init /\ [][Next]_vars

-----------------------------------------------------------------------------
(* lambda_handler: one S3 event, from the event record to the return *)

UpperAlphabet == <<"A", "B", "C", "D", "E", "F", "G", "H", "I", "J", "K", "L", "M", "N", "O", "P", "Q", "R", "S", "T", "U", "V", "W", "X", "Y", "Z">>

LowerAlphabet == <<"a", "b", "c", "d", "e", "f", "g", "h", "i", "j", "k", "l", "m", "n", "o", "p", "q", "r", "s", "t", "u", "v", "w", "x", "y", "z">>

\* str.lower()
LowerChar(c) ==
    IF \E i \in 1..Len(UpperAlphabet) : UpperAlphabet[i] = c
    THEN LowerAlphabet[CHOOSE i \in 1..Len(UpperAlphabet) : UpperAlphabet[i] = c]
    ELSE c

Lower(s) == [i \in 1..Len(s) |-> LowerChar(s[i])]

\* sub in s
Contains(s, sub) == \E i \in 0..(Len(s) - Len(sub)) : SubSeq(s, i + 1, i + Len(sub)) = sub

\* urllib.parse.unquote_plus: '+' is a space, then the percent codes are decoded
UnquotePlus(s) == Unquote(Replace(s, <<"+">>, <<" ">>))

ObjectCreated == <<"o", "b", "j", "e", "c", "t", "c", "r", "e", "a", "t", "e", "d">>

ObjectRemoved == <<"o", "b", "j", "e", "c", "t", "r", "e", "m", "o", "v", "e", "d">>

\* the S3 event names of the model: a creation as S3 writes it and in lower case,
\* a removal, and an event that is neither
EventNames ==
    {<<"O", "b", "j", "e", "c", "t", "C", "r", "e", "a", "t", "e", "d", ":", "P", "u", "t">>,
     <<"o", "b", "j", "e", "c", "t", "c", "r", "e", "a", "t", "e", "d", ":", "p", "u", "t">>,
     <<"O", "b", "j", "e", "c", "t", "R", "e", "m", "o", "v", "e", "d", ":", "D", "e", "l", "e", "t", "e">>,
     <<"O", "b", "j", "e", "c", "t", "R", "e", "s", "t", "o", "r", "e", ":", "P", "o", "s", "t">>}

\* the object keys as S3 writes them in an event (a space is written '+'): valid
\* files in a directory and directly under raw, a file whose model name holds a
\* space, an unsupported file, a file with an upper-case extension, a folder, a
\* badly named file, a file under another first segment
EventKeys ==
    {Raw \o <<"/", "p", "/">> \o Date \o <<"-", "a">> \o CsvExt,
     Raw \o <<"/", "p", "/">> \o Date \o <<"-", "a">> \o ParquetExt,
     Raw \o <<"/">> \o Date \o <<"-", "a">> \o CsvExt,
     Raw \o <<"/", "p", "/">> \o Date \o <<"-", "a", "+", "b">> \o CsvExt,
     Raw \o <<"/", "p", "/">> \o Date \o <<"-", "a", ".", "t", "x", "t">>,
     Raw \o <<"/", "p", "/">> \o Date \o <<"-", "a", ".", "C", "S", "V">>,
     Raw \o <<"/", "p", "/">>,
     Raw \o <<"/", "p", "/", "a">> \o CsvExt,
     <<"x", "/", "p", "/">> \o Date \o <<"-", "a">> \o CsvExt}

Events == [eventName : EventNames, bucket : {BucketName}, key : EventKeys]

\* ModelOutputHandler.from_s3(bucket, key) of lambda_handler, constructor
\* included, for every event key (evaluated once per key)
LambdaRun ==
    [k \in EventKeys |->
        LET r == from_s3(BucketName, UnquotePlus(k), Raw)
            c == Construct(r.init.hub_path, r.init.mo_path, r.init.output_path)
        IN  IF r.raised # "none"
            THEN [raised |-> r.raised, warnings |-> << >>, io |-> << >>,
                  mo |-> NoHandler, init |-> r.init]
            ELSE [raised |-> c.raised, warnings |-> c.warnings, io |-> c.io,
                  mo |-> c.mo, init |-> r.init]]

\* ModelOutputHandler.add_model_output on a store.  The raw file is read
\* first: when the input filesystem cannot open it (readable = FALSE: the file
\* is gone, or the backend fails) read_file raises an OSError and nothing is
\* written
add_model_output(h, st, readable) ==
    IF readable
    THEN [store    |-> PutObject(st, WritePath(h), TransformedTable(h)),
          io       |-> <<[op |-> "open_input", path |-> h.input_file],
                         [op |-> "open_output_stream", path |-> WritePath(h)]>>,
          raised   |-> "none",
          warnings |-> << >>]
    ELSE [store    |-> st,
          io       |-> <<[op |-> "open_input", path |-> h.input_file]>>,
          raised   |-> "OSError",
          warnings |-> << >>]

\* a variant of delete_model_output that reports success and leaves the file
delete_model_output_NoRemoval(h, st) ==
    [store    |-> st,
     io       |-> <<[op |-> "delete_file", path |-> DeletePath(h)]>>,
     raised   |-> "none",
     warnings |-> << >>]

\* ModelOutputHandler.delete_model_output on a store
delete_model_output(h, st) ==
    LET w == raise_user_warning(DeletePath(h), "Model output file not found for deletion")
        found == ObjectsAt(st, DeletePath(h)) # {}
    IN  [store    |-> st \ ObjectsAt(st, DeletePath(h)),
         io       |-> <<[op |-> "delete_file", path |-> DeletePath(h)]>>,
         raised   |-> IF found THEN "none" ELSE w.raised,
         warnings |-> IF found THEN << >> ELSE w.warnings]

\* a variant of the branch that compares the event name as S3 wrote it
Route_CaseSensitive(event_name) ==
    IF Contains(event_name, ObjectCreated) THEN "add"
    ELSE IF Contains(event_name, ObjectRemoved) THEN "delete"
    ELSE "skip"

\* the branch lambda_handler takes for an event name
Route(event_name) ==
    IF Contains(Lower(event_name), ObjectCreated) THEN "add"
    ELSE IF Contains(Lower(event_name), ObjectRemoved) THEN "delete"
    ELSE "skip"

\* a variant of the except clauses that passes over a ValueError as well
Swallowed_WithValueError == {"none", "UserWarning", "ValueError"}

\* the exceptions the except UserWarning clause of lambda_handler swallows
Swallowed == {"none", "UserWarning"}

\* what lambda_handler derives from an event before it touches the store: the
\* decoded key, the file named in its log entries, the outcome of from_s3 and
\* the branch taken
PlanOf(event_name, key, run) ==
    [key   |-> key,
     file  |-> BucketName \o <<"/">> \o key,
     run   |-> run,
     route |-> IF run.raised # "none" THEN "none" ELSE Route(event_name)]

\* the plan of every event of the model (evaluated once per event)
EventPlan ==
    [event_name \in EventNames, object_key \in EventKeys |->
        PlanOf(event_name, UnquotePlus(object_key), LambdaRun[object_key])]

\* the call of the branch taken, on the store as it is
Outcome(plan, st, readable) ==
    IF plan.route = "add" THEN add_model_output(plan.run.mo, st, readable)
    ELSE IF plan.route = "delete" THEN delete_model_output(plan.run.mo, st)
    ELSE [store |-> st, io |-> << >>, raised |-> plan.run.raised, warnings |-> << >>]

\* the logger.info entry of the branch taken
BranchInfo(e, plan) ==
    IF plan.route = "add"
    THEN <<[level |-> "info", msg |-> "Adding file",
            event |-> e.eventName, file |-> plan.file]>>
    ELSE IF plan.route = "delete"
    THEN <<[level |-> "info", msg |-> "Deleting file",
            event |-> e.eventName, file |-> plan.file]>>
    ELSE IF plan.route = "skip"
    THEN <<[level |-> "info", msg |-> "Event type not supported, skipping",
            event |-> e.eventName, file |-> plan.file]>>
    ELSE << >>

\* the logger.exception entry of the except Exception clause
ErrorEntry(e, plan, op) ==
    IF op.raised \in Swallowed THEN << >>
    ELSE <<[level |-> "exception", msg |-> "Error handling file",
            event |-> e.eventName, file |-> plan.file, error |-> op.raised]>>

\* lambda_handler(event, context), with the plan of the event and the outcome op
\* of the call it makes
LambdaHandler(e, plan, op) ==
    /\ event' = e
    /\ lastCall' = "lambda_handler"
    /\ built' = [called        |-> TRUE,
                 bucket_name   |-> e.bucket,
                 s3_key        |-> plan.key,
                 origin_prefix |-> Raw,
                 init          |-> plan.run.init]
    /\ mo' = plan.run.mo
    /\ calls' = <<"from_s3">>
                \o (IF plan.route = "add" THEN <<"add_model_output">>
                    ELSE IF plan.route = "delete" THEN <<"delete_model_output">>
                    ELSE << >>)
    /\ caught' = op.raised
    /\ store' = op.store
    /\ ioLog' = plan.run.io \o op.io
    /\ warnings' = plan.run.warnings \o op.warnings
    /\ handlerLog' = <<[level |-> "info", msg |-> "Received event",
                        event |-> e.eventName, file |-> e.bucket \o <<"/">> \o e.key]>>
                     \o BranchInfo(e, plan) \o ErrorEntry(e, plan, op)
    /\ raised' = "none"
    /\ returned' = None
    /\ UNCHANGED <<parseArg, parseRes, tableVars, uriVars, configVars>>

\* one event; whether the raw file can be read matters to the events that lead
\* to a read
NextLambda ==
    \E e \in Events :
        \E plan \in {EventPlan[e.eventName, e.key]} :
            \E readable \in (IF plan.route = "add" THEN BOOLEAN ELSE {TRUE}) :
                \E op \in {Outcome(plan, store, readable)} :
                    LambdaHandler(e, plan, op)

SpecLambda == Init /\ [][NextLambda]_vars

-----------------------------------------------------------------------------
(* The specification of the add pipeline on the content of one raw file *)

InitTable ==
    /\ parseArg = EmptyStr
    /\ parseRes = Pending
    /\ built = [called |-> FALSE]
    /\ lastCall = "none"
    /\ mo \in TableHandlers
    /\ raised = "none"
    /\ returned = None
    /\ store = {}
    /\ ioLog = << >>
    /\ warnings = << >>
    /\ model_output_file \in FilesOfType(mo.file_type)
    /\ model_output_table = NoTable
    /\ updated_model_output_table = NoTable
    /\ uriArg = EmptyStr
    /\ uriRes = << >>
    /\ InitNoEvent
    /\ InitNoConfig

\* mo.read_file()
ReadFile ==
    /\ lastCall = "none"
    /\ lastCall' = "read_file"
    /\ model_output_table' = read_file(mo, model_output_file)
    /\ ioLog' = <<[op   |-> IF mo.file_type = CsvExt THEN "open_input_stream"
                            ELSE "open_input_file",
                   path |-> mo.input_file]>>
    /\ returned' = None
    /\ UNCHANGED <<parseArg, parseRes, built, mo, raised, store, warnings,
                   model_output_file, updated_model_output_table, uriVars, lambdaVars, configVars>>

\* mo.add_columns(model_output_table)
AddColumns ==
    /\ lastCall = "read_file"
    /\ lastCall' = "add_columns"
    /\ updated_model_output_table' = add_columns(mo, model_output_table)
    /\ ioLog' = << >>
    /\ UNCHANGED <<parseArg, parseRes, built, mo, raised, returned, store, warnings,
                   model_output_file, model_output_table, uriVars, lambdaVars, configVars>>

\* mo.write_parquet(updated_model_output_table)
WriteParquet ==
    /\ lastCall = "add_columns"
    /\ lastCall' = "write_parquet"
    /\ store' = PutObject(store, WritePath(mo), updated_model_output_table)
    /\ ioLog' = <<[op |-> "open_output_stream", path |-> WritePath(mo)]>>
    /\ returned' = WritePath(mo)
    /\ UNCHANGED <<parseArg, parseRes, built, mo, raised, warnings, tableVars, uriVars, lambdaVars, configVars>>

NextTable == ReadFile \/ AddColumns \/ WriteParquet

SpecTable == InitTable /\ [][NextTable]_vars

-----------------------------------------------------------------------------
(* The specification of the calls of sanitize_uri on one path *)

InitSanitize ==
    /\ parseArg = EmptyStr
    /\ parseRes = Pending
    /\ store = {}
    /\ built = [called |-> FALSE]
    /\ lastCall = "none"
    /\ mo = NoHandler
    /\ raised = "none"
    /\ returned = None
    /\ ioLog = << >>
    /\ warnings = << >>
    /\ model_output_file = NoFile
    /\ model_output_table = NoTable
    /\ updated_model_output_table = NoTable
    /\ uriArg \in UriPaths
    /\ uriRes = << >>
    /\ InitNoEvent
    /\ InitNoConfig

\* sanitize_uri(path) on the chosen path
SanitizeUriCall ==
    /\ uriRes = << >>
    /\ InitNoEvent
    /\ uriRes' = <<sanitize_uri(uriArg)>>
    /\ lastCall' = "sanitize_uri"
    /\ UNCHANGED <<parseArg, parseRes, built, mo, raised, returned, store, ioLog, warnings,
                   tableVars, uriArg, lambdaVars, configVars>>

\* sanitize_uri on the path the previous call returned
SanitizeUriAgainCall ==
    /\ Len(uriRes) = 1
    /\ uriRes' = Append(uriRes, sanitize_uri(uriRes[1]))
    /\ UNCHANGED <<parseArg, parseRes, built, lastCall, mo, raised, returned, store, ioLog,
                   warnings, tableVars, uriArg, lambdaVars, configVars>>

NextSanitize == SanitizeUriCall \/ SanitizeUriAgainCall

SpecSanitize == InitSanitize /\ [][NextSanitize]_vars

-----------------------------------------------------------------------------
(* The specification of write_parquet on an S3 and on a local filesystem *)

IsDirectory(st, path) == [path |-> path, content |-> Directory] \in st

\* fs_output.open_output_stream(path): an S3 filesystem takes any key of the
\* bucket; a local filesystem opens a file only in an existing directory
CanOpenOutputStream(h, st, path) ==
    h.fs_output = "s3" \/ IsDirectory(st, ParentDir(path))

InitWrite ==
    /\ parseArg = EmptyStr
    /\ parseRes = Pending
    /\ built = [called |-> FALSE]
    /\ lastCall = "none"
    /\ mo \in WriteHandlers
    /\ raised = "none"
    /\ returned = None
    /\ store \in StoresBefore(mo)
    /\ ioLog = << >>
    /\ warnings = << >>
    /\ model_output_file = NoFile
    /\ model_output_table = NoTable
    /\ updated_model_output_table = NoTable
    /\ uriArg = EmptyStr
    /\ uriRes = << >>
    /\ InitNoEvent
    /\ InitNoConfig

\* mo.write_parquet(table) on the filesystem of the handler
WriteParquetFs ==
    /\ lastCall = "none"
    /\ lastCall' = "write_parquet"
    /\ ioLog' = <<[op |-> "open_output_stream", path |-> WritePath(mo)]>>
    /\ IF CanOpenOutputStream(mo, store, WritePath(mo))
       THEN /\ store' = PutObject(store, WritePath(mo), TransformedTable(mo))
            /\ raised' = "none"
            /\ returned' = WritePath(mo)
       ELSE /\ store' = store
            /\ raised' = "FileNotFoundError"
            /\ returned' = None
    /\ UNCHANGED <<parseArg, parseRes, built, mo, warnings, tableVars, uriVars, lambdaVars, configVars>>

NextWrite == WriteParquetFs

SpecWrite == InitWrite /\ [][NextWrite]_vars

-----------------------------------------------------------------------------
(* hub_config.HubConfig.get_task_id_values.  A JSON object is a function   *)
(* from its keys, a JSON array a sequence, JSON null is None; the values   *)
(* of a task id are opaque strings.                                        *)

\* dict.get(key, default)
DictGet(d, key, default) == IF key \in DOMAIN d THEN d[key] ELSE default

\* the elements of a list
Elements(list) == {list[i] : i \in 1..Len(list)}

\* `value or []`: None and the empty list both give the empty list
OrEmptyList(value) == IF value = None \/ value = << >> THEN << >> ELSE value

\* set(itertools.chain.from_iterable([value or [] for value in task_id[1].values()]))
ChainedValues(task_id) ==
    UNION {Elements(OrEmptyList(task_id[k])) : k \in DOMAIN task_id}

\* HubConfig._get_task_id_values(task_set)
_get_task_id_values(task_set) ==
    LET task_ids == DictGet(task_set, "task_ids", << >>)
    IN  [name \in DOMAIN task_ids |-> ChainedValues(task_ids[name])]

\* the merge without the union: each task set replaces what was collected
MergeTaskValues_Overwrite(model_tasks_dict, task_values) ==
    [key \in DOMAIN model_tasks_dict \cup DOMAIN task_values |->
        IF key \in DOMAIN task_values
        THEN task_values[key]
        ELSE model_tasks_dict[key]]

\* for key, value in task_values.items():
\*     model_tasks_dict[key] = model_tasks_dict.get(key, set()) | value
MergeTaskValues(model_tasks_dict, task_values) ==
    [key \in DOMAIN model_tasks_dict \cup DOMAIN task_values |->
        IF key \in DOMAIN task_values
        THEN DictGet(model_tasks_dict, key, {}) \cup task_values[key]
        ELSE model_tasks_dict[key]]

\* for task_set in r.get("model_tasks", []): ...
RECURSIVE CollectModelTasks(_, _)
CollectModelTasks(model_tasks_dict, model_tasks) ==
    IF model_tasks = << >> THEN model_tasks_dict
    ELSE CollectModelTasks(
             MergeTaskValues(model_tasks_dict, _get_task_id_values(Head(model_tasks))),
             Tail(model_tasks))

\* for r in rounds: ...
RECURSIVE CollectRounds(_, _)
CollectRounds(model_tasks_dict, rounds) ==
    IF rounds = << >> THEN model_tasks_dict
    ELSE CollectRounds(
             CollectModelTasks(model_tasks_dict, DictGet(Head(rounds), "model_tasks", << >>)),
             Tail(rounds))

\* HubConfig.get_task_id_values(), for self.tasks = tasks_config
get_task_id_values(tasks_config) ==
    CollectRounds(<< >>, DictGet(tasks_config, "rounds", << >>))

\* the tasks.json contents the specification draws from
RequiredOptional ==
    [only_required |-> [required |-> <<"a">>, optional |-> None],
     only_optional |-> [required |-> None, optional |-> <<"b">>],
     both          |-> [required |-> <<"a", "b">>, optional |-> <<"c">>],
     no_optional   |-> [required |-> << >>]]

OutputType ==
    [mean |-> [output_type_id |-> [required |-> <<"q">>, optional |-> None]]]

TaskSets ==
    [first   |-> [task_ids    |-> [location |-> RequiredOptional.only_required,
                                   horizon  |-> RequiredOptional.only_optional],
                  output_type |-> OutputType],
     second  |-> [task_ids    |-> [location |-> RequiredOptional.both],
                  output_type |-> OutputType],
     third   |-> [task_ids    |-> [horizon |-> RequiredOptional.no_optional,
                                   target  |-> RequiredOptional.only_required],
                  output_type |-> OutputType],
     no_task_ids |-> [output_type |-> OutputType]]

ModelTaskLists ==
    {<< >>,
     <<TaskSets.first>>, <<TaskSets.second>>, <<TaskSets.third>>, <<TaskSets.no_task_ids>>,
     <<TaskSets.first, TaskSets.second>>,
     <<TaskSets.third, TaskSets.first>>,
     <<TaskSets.second, TaskSets.no_task_ids>>}

Rounds ==
    {[round_id_from_variable |-> TRUE, model_tasks |-> l] : l \in ModelTaskLists}
    \cup {[round_id_from_variable |-> TRUE]}

RoundLists == UNION {[1..n -> Rounds] : n \in 0..MaxRounds}

TasksConfigs ==
    {[schema_version |-> "v3", rounds |-> rounds] : rounds \in RoundLists}
    \cup {[schema_version |-> "v3"]}

InitConfig ==
    /\ parseArg = EmptyStr
    /\ parseRes = Pending
    /\ built = [called |-> FALSE]
    /\ lastCall = "none"
    /\ mo = NoHandler
    /\ raised = "none"
    /\ returned = None
    /\ store = {}
    /\ ioLog = << >>
    /\ warnings = << >>
    /\ model_output_file = NoFile
    /\ model_output_table = NoTable
    /\ updated_model_output_table = NoTable
    /\ uriArg = EmptyStr
    /\ uriRes = << >>
    /\ InitNoEvent
    /\ tasks \in TasksConfigs
    /\ task_id_values = Pending

\* HubConfig.get_task_id_values() on the chosen configuration
GetTaskIdValues ==
    /\ task_id_values = Pending
    /\ task_id_values' = [status |-> "returned", value |-> get_task_id_values(tasks)]
    /\ lastCall' = "get_task_id_values"
    /\ UNCHANGED <<parseArg, parseRes, built, mo, raised, returned, store, ioLog, warnings,
                   tableVars, uriVars, lambdaVars, tasks>>

NextConfig == GetTaskIdValues

SpecConfig == InitConfig /\ [][NextConfig]_vars

-----------------------------------------------------------------------------
(* Properties of parse_file, checked under SpecParse *)

\* what follows the first RoundIdLen characters of a file name
AfterRound(name) == Drop(name, RoundIdLen)

\* the number of '-' and '_' characters that directly follow the round token
LeadingSeparators(name) == RunLen(AfterRound(name), Separators)

\* what follows the round token and the separators after it
Remainder(name) == Drop(AfterRound(name), LeadingSeparators(name))

OnlySeparatorsOrWhitespace(s) == \A i \in 1..Len(s) : s[i] \in Separators \cup Whitespace

\* C1: for every file name D S R (D a date token, S a non-empty run of '-'/'_',
\* R a non-empty remainder not starting with '-' or '_'), parse_file returns
\* round_id = D and model_id = R with surrounding whitespace trimmed, whatever
\* R contains.
C1_ParseReturnsWholeRemainder ==
    (/\ parseRes # Pending
     /\ MatchRoundId(parseArg)
     /\ LeadingSeparators(parseArg) >= 1
     /\ Remainder(parseArg) # EmptyStr)
    => parseRes = [status   |-> "ok",
                   round_id |-> Take(parseArg, RoundIdLen),
                   model_id |-> Strip(Remainder(parseArg))]

\* a file name without a date token at its start, or with nothing after the date
\* token and its separators
Malformed(name) == ~MatchRoundId(name) \/ Remainder(name) = EmptyStr

\* C2: parse_file fails with ValueError, producing no round_id or model_id, for
\* every file name that does not start with a date token and for every file name
\* whose remainder after the date token and its separators is empty; so does
\* the construction of a handler for a file with a supported extension, whose
\* file name is the stem with its surrounding whitespace stripped.
C2_MalformedNameRejected ==
    /\ (parseRes # Pending /\ Malformed(parseArg)) => parseRes = ParseError
    /\ (/\ lastCall = "__init__"
        /\ Strip(parseArg) # EmptyStr
        /\ Malformed(Strip(parseArg)))
       => (raised = "ValueError" /\ mo = NoHandler)

\* a name made of a date token and separators only has been rejected by
\* parse_file and by the constructor
C2_Witness ==
    /\ parseRes = ParseError
    /\ lastCall = "__init__"
    /\ raised = "ValueError"
    /\ MatchRoundId(parseArg)
    /\ LeadingSeparators(parseArg) >= 2
    /\ Remainder(parseArg) = EmptyStr

\* C3: whenever parse_file returns, round_id is the date-pattern prefix of the
\* file name and model_id is non-empty; a file name whose remainder after the
\* round token consists only of separators and/or whitespace is rejected with
\* ValueError.
C3_ModelIdNeverEmpty ==
    parseRes # Pending =>
        /\ parseRes.status = "ok" =>
              /\ MatchRoundId(parseArg)
              /\ parseRes.round_id = Take(parseArg, RoundIdLen)
              /\ parseRes.model_id # EmptyStr
        /\ (MatchRoundId(parseArg) /\ OnlySeparatorsOrWhitespace(AfterRound(parseArg)))
              => parseRes = ParseError

-----------------------------------------------------------------------------
(* Properties of from_s3, checked under Spec *)

KeySegments(key) == SplitOn(key, "/")

\* a key written in normal path form: no empty segment (so no leading, doubled
\* or trailing '/') and no '.' segment
NormalKey(key) == \A i \in 1..Len(KeySegments(key)) : KeySegments(key)[i] \notin {EmptyStr, Dot}

\* the directory segments of a key that follow its first segment, as a path
\* ('.' when there is none)
DirsAfterFirst(key) ==
    LET segs == KeySegments(key)
    IN  IF Len(segs) <= 2 THEN Dot ELSE Join(SubSeq(segs, 2, Len(segs) - 1), "/")

\* from_s3 called the constructor with the bucket, the key as given, and the
\* bucket joined with the key's directories after its first segment
DerivedFromKey ==
    /\ built.init.called
    /\ built.init.hub_path = S3Scheme \o built.bucket_name
    /\ built.init.mo_path = built.s3_key
    /\ built.init.output_path =
           S3Scheme \o built.bucket_name \o <<"/">> \o DirsAfterFirst(built.s3_key)

\* C4 as stated: for every S3 key whose first segment equals origin_prefix,
\* from_s3 removes exactly that segment, keeps every remaining directory segment
\* in order and passes the unmodified key to the constructor.
C4_EveryKeyDerived ==
    (built.called /\ KeySegments(built.s3_key)[1] = built.origin_prefix) => DerivedFromKey

\* C4 as amended: the same, for every key in normal path form.
C4_NormalKeyDerived ==
    (/\ built.called
     /\ NormalKey(built.s3_key)
     /\ KeySegments(built.s3_key)[1] = built.origin_prefix)
    => DerivedFromKey

\* from_s3 has handled a key with a second segment equal to the origin prefix
C4_Witness ==
    /\ built.called
    /\ NormalKey(built.s3_key)
    /\ Len(KeySegments(built.s3_key)) = 3
    /\ KeySegments(built.s3_key)[1] = built.origin_prefix
    /\ KeySegments(built.s3_key)[2] = built.origin_prefix
    /\ built.init.called

\* C5: for every S3 key whose first path segment is not the origin prefix,
\* from_s3 raises ValueError before any filesystem object is created or any
\* storage operation is attempted, and no handler is returned.
C5_WrongPrefixRejected ==
    (/\ lastCall = "from_s3"
     /\ built.s3_key # EmptyStr
     /\ KeySegments(built.s3_key)[1] # built.origin_prefix)
    => /\ raised = "ValueError"
       /\ mo = NoHandler
       /\ ~built.init.called
       /\ ioLog = << >>

\* from_s3 has rejected a validly named file that lies under another prefix
C5_Witness ==
    /\ lastCall = "from_s3"
    /\ built.s3_key # EmptyStr
    /\ KeySegments(built.s3_key)[1] # built.origin_prefix
    /\ parse_file(Stem(KeySegments(built.s3_key)[Len(KeySegments(built.s3_key))])).status = "ok"
    /\ raised = "ValueError"

-----------------------------------------------------------------------------
(* Properties of the add and delete pipelines, checked under Spec *)

\* C6: for every handler, the path delete_model_output deletes is identical to
\* the path write_parquet writes.
C6_DeletePathIsWritePath == mo.status = "ok" => DeletePath(mo) = WritePath(mo)

\* C7: after any sequence of add and delete runs for one submission, the
\* canonical output file (the one add writes) exists in the store if and only
\* if the last completed run was an add.
C7_DeleteMirrorsAdd ==
    mo.status = "ok" =>
        /\ lastCall = "add_model_output" => ObjectsAt(store, WritePath(mo)) # {}
        /\ lastCall = "delete_model_output" => ObjectsAt(store, WritePath(mo)) = {}

\* a delete_model_output call on a handler whose output file is not in the store
MissingDelete == DeleteModelOutput /\ ObjectsAt(store, DeletePath(mo)) = {}

\* C8 as stated: when delete_model_output is called and the output file does not
\* exist, no exception is raised to the caller.
C8_MissingDeleteRaisesNothing == [][MissingDelete => raised' = "none"]_vars

\* C8 as amended: when delete_model_output is called and the output file does
\* not exist, the call logs one warning naming the path and raises UserWarning
\* to its caller, and the store is unchanged.
C8_MissingDeleteRaisesUserWarning ==
    [][MissingDelete =>
          /\ raised' = "UserWarning"
          /\ warnings' = <<[message |-> "Model output file not found for deletion",
                            file    |-> DeletePath(mo)]>>
          /\ store' = store]_vars

\* delete_model_output has been called for a file that is not in the store
C8_Witness ==
    /\ lastCall = "delete_model_output"
    /\ raised = "UserWarning"
    /\ warnings # << >>

\* C9: delete_model_output removes exactly the one file
\* <output_path>/<file_name>.parquet and leaves every other file unchanged; a
\* delete of a file that is not there raises UserWarning and leaves the store
\* unchanged.
C9_DeleteRemovesOnlyOutputFile ==
    [][DeleteModelOutput =>
          /\ ObjectsAt(store', WritePath(mo)) = {}
          /\ \A o \in store : o.path # WritePath(mo) => o \in store'
          /\ store' \subseteq store
          /\ ObjectsAt(store, WritePath(mo)) = {} =>
                 (raised' = "UserWarning" /\ store' = store)]_vars

\* C10: add_model_output leaves exactly one object at the output path, holding
\* the transform of the raw file, whatever was there before, and changes no
\* other object; run again on the same handler it leaves the store as it is.
C10_AddReplacesAndIsIdempotent ==
    [][AddModelOutput =>
          /\ ObjectsAt(store', WritePath(mo)) =
                 {[path |-> WritePath(mo), content |-> TransformedTable(mo)]}
          /\ \A o \in store : o.path # WritePath(mo) => o \in store'
          /\ \A o \in store' : o.path # WritePath(mo) => o \in store
          /\ lastCall = "add_model_output" => store' = store]_vars

\* add_model_output has replaced a file that was at the output path before the
\* first run
C10_Witness ==
    /\ lastCall = "add_model_output"
    /\ returned = WritePath(mo)
    /\ \E o \in InitialObjects : o.path = WritePath(mo) /\ o \notin store
    /\ ObjectsAt(store, WritePath(mo)) # {}

-----------------------------------------------------------------------------
(* Properties of read_file and add_columns, checked under SpecTable *)

ColumnNamesOf(columns) == [i \in 1..Len(columns) |-> columns[i].name]

\* the texts of the cells of a raw CSV column
RawTexts(column) == [i \in 1..Len(column.cells) |-> column.cells[i].v]

\* the type a column of the raw file has by itself: its Parquet type, or the type
\* inferred from its CSV texts
SourceType(file, i) ==
    IF file.format = "csv" THEN InferType(RawTexts(file.columns[i]))
    ELSE file.columns[i].type

\* C11: in the table read_file returns, and in every output file, the columns
\* location and output_type_id have string type whatever the source format and
\* the source's own type; every other column has its source (Parquet) or
\* inferred (CSV) type; the columns are in the order of the source.
C11_StringColumnsAndOrder ==
    /\ lastCall \in {"read_file", "add_columns", "write_parquet"} =>
         /\ ColumnNamesOf(model_output_table) = ColumnNamesOf(model_output_file.columns)
         /\ \A i \in 1..Len(model_output_table) :
               model_output_table[i].type =
                  IF model_output_table[i].name \in StringColumns THEN "string"
                  ELSE SourceType(model_output_file, i)
    /\ \A o \in store : \A i \in 1..Len(o.content) :
          o.content[i].name \in StringColumns => o.content[i].type = "string"

\* an output file written from a Parquet file whose location column is an
\* integer column with a value, next to a column of another name
C11_Witness ==
    /\ lastCall = "write_parquet"
    /\ model_output_file.format = "parquet"
    /\ HasColumn(model_output_file.columns, "value")
    /\ \E i \in 1..Len(model_output_file.columns) :
          /\ model_output_file.columns[i].name = "location"
          /\ model_output_file.columns[i].type = "int64"
          /\ \E r \in 1..Len(model_output_file.columns[i].cells) :
                ~model_output_file.columns[i].cells[r].null
    /\ \E o \in store : HasColumn(o.content, "location")

\* C12: in the table read from a CSV file, every cell whose raw text is one of
\* na, NA, the empty string, a single space, null, Null, NaN, nan is null
\* whatever the type of its column, and every other cell of a string column
\* holds its raw text exactly.
C12_CsvNullsAndLiteralStrings ==
    (lastCall \in {"read_file", "add_columns", "write_parquet"} /\ mo.file_type = CsvExt) =>
        \A i \in 1..Len(model_output_file.columns) :
            \A r \in 1..Len(model_output_file.columns[i].cells) :
                LET text == model_output_file.columns[i].cells[r].v
                    cell == model_output_table[i].cells[r]
                IN  /\ text \in NullValues => cell.null
                    /\ (model_output_table[i].type = "string" /\ text \notin NullValues)
                          => (~cell.null /\ cell.v = text)

\* a CSV file read with a string column that holds the text 02 and a single space
C12_Witness ==
    /\ lastCall = "read_file"
    /\ mo.file_type = CsvExt
    /\ \E i \in 1..Len(model_output_table) :
          /\ model_output_table[i].type = "string"
          /\ \E r, q \in 1..Len(model_output_file.columns[i].cells) :
                /\ model_output_file.columns[i].cells[r].v = <<"0", "2">>
                /\ model_output_file.columns[i].cells[q].v = <<" ">>

\* C13: the table add_columns returns has the rows of its input, exactly two
\* more columns than its input, named round_id and model_id, and every column
\* of the input with its name and values, also when the input already has a
\* column named round_id or model_id.
C13_AddColumnsKeepsInput ==
    lastCall \in {"add_columns", "write_parquet"} =>
        /\ NumRows(updated_model_output_table) = NumRows(model_output_table)
        /\ Len(updated_model_output_table) = Len(model_output_table) + 2
        /\ HasColumn(updated_model_output_table, "round_id")
        /\ HasColumn(updated_model_output_table, "model_id")
        /\ \A i \in 1..Len(model_output_table) :
              \E j \in 1..Len(updated_model_output_table) :
                 /\ updated_model_output_table[j].name = model_output_table[i].name
                 /\ updated_model_output_table[j].cells = model_output_table[i].cells

\* the values of the cells of the columns of a name
ValuesOf(columns, name) ==
    UNION {{columns[i].cells[r] : r \in 1..Len(columns[i].cells)} :
           i \in {j \in 1..Len(columns) : columns[j].name = name}}

\* C14: in the table add_columns returns, the round_id cell of every row is the
\* handler's round_id and the model_id cell of every row is the handler's
\* model_id: no cell is null, and a column with rows holds that one value.
C14_IdentityColumnsConstant ==
    lastCall \in {"add_columns", "write_parquet"} =>
        /\ HasColumn(updated_model_output_table, "round_id")
        /\ HasColumn(updated_model_output_table, "model_id")
        /\ ValuesOf(updated_model_output_table, "round_id") \subseteq {Cell(mo.round_id)}
        /\ ValuesOf(updated_model_output_table, "model_id") \subseteq {Cell(mo.model_id)}
        /\ NumRows(updated_model_output_table) > 0 =>
              /\ ValuesOf(updated_model_output_table, "round_id") = {Cell(mo.round_id)}
              /\ ValuesOf(updated_model_output_table, "model_id") = {Cell(mo.model_id)}
              /\ mo.round_id # EmptyStr
              /\ mo.model_id # EmptyStr

\* add_columns has run on a table of two rows
C14_Witness ==
    /\ lastCall = "add_columns"
    /\ NumRows(model_output_table) = 2
    /\ NumRows(updated_model_output_table) = 2
    /\ HasColumn(model_output_table, "location")

-----------------------------------------------------------------------------
(* Properties of the constructor, checked under Spec *)

\* the file name of a key: its last path segment
KeyFileName(key) == PathName(PathParts(key))

\* the key names a file with a valid name and an extension that is not supported
UnsupportedExtension(key) ==
    /\ Suffix(KeyFileName(key)) \notin {CsvExt, ParquetExt, PqtExt, EmptyStr}
    /\ parse_file(Stem(KeyFileName(key))).status = "ok"

NoExtension(key) == Suffix(KeyFileName(key)) = EmptyStr

\* the input path of a constructor call: mo_path under the bucket
InputPathOf(bucket_name, mo_path) == S3Scheme \o bucket_name \o <<"/">> \o mo_path

-----------------------------------------------------------------------------
(* Properties of sanitize_uri, checked under SpecSanitize *)

\* C17: sanitize_uri is idempotent: sanitizing the path it returned returns that
\* path again, so that no %20 of an encoded path becomes %2520.
C17_SanitizeIdempotent == Len(uriRes) = 2 => uriRes[2] = uriRes[1]

\* a path with the stem of its last segment trimmed and nothing else changed
StemTrimmed(uri) ==
    LET segs == SplitOn(uri, "/")
        name == segs[Len(segs)]
    IN  Join(Take(segs, Len(segs) - 1) \o <<Strip(Stem(name)) \o Suffix(name)>>, "/")

\* C18: sanitize_uri returns the path with the whitespace around its file stem
\* removed, every directory segment as given (also one that contains or equals
\* the untrimmed stem), and every character other than the unreserved ones,
\* ':' and '/' percent-encoded.
C18_OnlyStemTrimmed == uriRes # << >> => uriRes[1] = Quote(StemTrimmed(uriArg))

-----------------------------------------------------------------------------
(* Properties of the output location, checked under Spec *)

\* C19: for every handler built by from_s3, no segment of the path of the
\* output file equals the origin prefix: the output is never written under
\* the prefix that triggers the transform.
C19_OutputOutsideOrigin ==
    (built.called /\ mo.status = "ok") =>
        \A i \in 1..Len(SplitOn(WritePath(mo), "/")) :
            SplitOn(WritePath(mo), "/")[i] # built.origin_prefix

\* the handlers from_s3 builds for the other keys of the hub
OtherHandlers ==
    {FromS3Run[k, built.origin_prefix].mo : k \in Keys \ {built.s3_key}}

\* C20: distinct valid submission keys of one hub never map to the same output
\* path: the output file of the handler built for one key is the output file
\* of no handler built for another key.
C20_DistinctKeysDistinctOutputs ==
    (built.called /\ mo.status = "ok") =>
        \A h \in OtherHandlers :
            h.status = "ok" => (WritePath(h) # WritePath(mo) /\ DeletePath(h) # DeletePath(mo))

-----------------------------------------------------------------------------
(* Properties of lambda_handler, checked under SpecLambda *)

Called(cs, method) == \E i \in 1..Len(cs) : cs[i] = method

\* the storage operations of a log: everything but the filesystem lookups of the
\* constructor
StorageOps(log) == {i \in 1..Len(log) : log[i].op # "FileSystem.from_uri"}

\* the run wrote the output of handler h
Transformed(h, cs, ex, before, after) ==
    /\ Called(cs, "add_model_output")
    /\ ex = "none"
    /\ ObjectsAt(after, WritePath(h)) = {[path |-> WritePath(h), content |-> TransformedTable(h)]}

\* the run removed the output of handler h
Deleted(h, cs, ex, before, after) ==
    /\ Called(cs, "delete_model_output")
    /\ ex = "none"
    /\ ObjectsAt(before, DeletePath(h)) # {}
    /\ ObjectsAt(after, DeletePath(h)) = {}

\* the run found no output of handler h to delete
MissingDelete_Run(h, cs, ex, before, after) ==
    /\ Called(cs, "delete_model_output")
    /\ ex = "UserWarning"
    /\ ObjectsAt(before, DeletePath(h)) = {}
    /\ after = before

\* the run skipped an event that is neither a creation nor a removal
Skipped(h, cs, ex, before, after) ==
    /\ cs = <<"from_s3">>
    /\ ex = "none"
    /\ after = before

\* the run could not read the raw file of handler h
ReadFailed(h, cs, ex, before, after) ==
    /\ Called(cs, "add_model_output")
    /\ ex = "OSError"
    /\ after = before

\* a run that from_s3 or the constructor rejected leaves no handler, performs no
\* storage operation and leaves the store as it was
RejectedIsTerminal ==
    (lastCall' = "lambda_handler" /\ mo'.status # "ok")
    => /\ caught' \in {"ValueError", "UserWarning"}
       /\ mo' = NoHandler
       /\ calls' = <<"from_s3">>
       /\ StorageOps(ioLog') = {}
       /\ store' = store

-----------------------------------------------------------------------------
(* Properties of write_parquet, checked under SpecWrite *)

\* C22: write_parquet succeeds also when the output directory or a directory
\* above it does not exist in the target store: the missing directories are
\* created and the file is written at <output_path>/<file_name>.parquet.
C22_WriteCreatesDirectories ==
    lastCall = "write_parquet" =>
        /\ raised = "none"
        /\ returned = mo.output_path \o <<"/">> \o mo.file_name \o ParquetExt
        /\ ObjectsAt(store, returned) = {[path |-> returned, content |-> TransformedTable(mo)]}
        /\ mo.fs_output = "local" =>
              \A d \in Ancestors(returned) : IsDirectory(store, d)

\* C23: after construction file_type is the extension of the input file in
\* lower case, so a validly named file whose extension is .csv, .parquet or
\* .pqt in any letter case is accepted with file_type .csv, .parquet or .pqt.
C23_FileTypeLowerCased ==
    (/\ lastCall = "lambda_handler"
     /\ built.init.called
     /\ parse_file(Stem(KeyFileName(built.s3_key))).status = "ok"
     /\ Lower(Suffix(KeyFileName(built.s3_key))) \in {CsvExt, ParquetExt, PqtExt})
    => /\ mo.status = "ok"
       /\ mo.file_type = Lower(Suffix(KeyFileName(built.s3_key)))

-----------------------------------------------------------------------------
(* Properties of the written table, checked under SpecTable *)

\* the schema of a table: the names and types of its columns, in order
SchemaOf(columns) ==
    [i \in 1..Len(columns) |-> [name |-> columns[i].name, type |-> columns[i].type]]

\* C24: for every input table, whatever its number of rows (zero included), the
\* schema of the table add_model_output writes is the columns read from the
\* source, in source order, followed by round_id and then model_id, both of
\* type string.
C24_WrittenSchema ==
    lastCall = "write_parquet" =>
        \A o \in store :
            SchemaOf(o.content) =
                SchemaOf(model_output_table)
                \o <<[name |-> "round_id", type |-> "string"],
                     [name |-> "model_id", type |-> "string"]>>

-----------------------------------------------------------------------------
(* Properties of get_task_id_values, checked under SpecConfig *)

\* every model task of every round of a configuration
ModelTasksOf(tasks_config) ==
    IF "rounds" \notin DOMAIN tasks_config THEN {}
    ELSE UNION {Elements(r.model_tasks) :
                    r \in {x \in Elements(tasks_config.rounds) : "model_tasks" \in DOMAIN x}}

\* the model tasks that name task ids at all
WithTaskIds(tasks_config) == {t \in ModelTasksOf(tasks_config) : "task_ids" \in DOMAIN t}

\* the values a task id lists under one of its two keys
Listed(task_id, k) ==
    IF k \notin DOMAIN task_id THEN {}
    ELSE IF task_id[k] = None THEN {}
    ELSE Elements(task_id[k])

TaskIdNames(tasks_config) == UNION {DOMAIN t.task_ids : t \in WithTaskIds(tasks_config)}

TaskIdUnion(tasks_config, name) ==
    UNION {Listed(t.task_ids[name], "required") \cup Listed(t.task_ids[name], "optional") :
               t \in {x \in WithTaskIds(tasks_config) : name \in DOMAIN x.task_ids}}

-----------------------------------------------------------------------------
(* Routing and error handling of lambda_handler, checked under SpecLambda *)

Count(cs, method) == Cardinality({i \in 1..Len(cs) : cs[i] = method})

NamesCreation(event_name) == Contains(Lower(event_name), ObjectCreated)

NamesRemoval(event_name) == Contains(Lower(event_name), ObjectRemoved)

\* the calls a creation, a removal and any other event lead to
RoutedByName(event_name, cs, before, after) ==
    /\ NamesCreation(event_name)
       => Count(cs, "add_model_output") = 1 /\ Count(cs, "delete_model_output") = 0
    /\ NamesRemoval(event_name)
       => Count(cs, "delete_model_output") = 1 /\ Count(cs, "add_model_output") = 0
    /\ (~NamesCreation(event_name) /\ ~NamesRemoval(event_name))
       => /\ Count(cs, "add_model_output") = 0
          /\ Count(cs, "delete_model_output") = 0
          /\ after = before

\* C26 as stated: every event is routed by its name, case-insensitively: a
\* creation leads to exactly one add_model_output call and no delete, a removal
\* to exactly one delete_model_output call and no add, any other name to
\* neither call and an unchanged output store.
C26_RoutedByName ==
    [][lastCall' = "lambda_handler"
       => RoutedByName(event'.eventName, calls', store, store')]_vars

\* C26 as amended: an event whose key from_s3 and the constructor accept is
\* routed by its name as stated; an event whose key they reject leads to
\* neither call and an unchanged output store, whatever its name.
C26_AcceptedRoutedByName ==
    [][lastCall' = "lambda_handler"
       => IF mo'.status = "ok"
          THEN RoutedByName(event'.eventName, calls', store, store')
          ELSE /\ Count(calls', "add_model_output") = 0
               /\ Count(calls', "delete_model_output") = 0
               /\ store' = store]_vars

\* a creation event named in lower case has led to one add_model_output call
C26_Witness ==
    /\ lastCall = "lambda_handler"
    /\ mo.status = "ok"
    /\ event.eventName = <<"o", "b", "j", "e", "c", "t", "c", "r", "e", "a", "t", "e", "d",
                           ":", "p", "u", "t">>
    /\ calls = <<"from_s3", "add_model_output">>

\* the entries lambda_handler logged with logger.exception
ExceptionEntries(log) == {i \in 1..Len(log) : log[i].level = "exception"}

\* C27: lambda_handler returns normally for every event; a UserWarning of the
\* core is passed over without an error-level entry of the handler; any other
\* exception is logged exactly once, with bucket/key, event name and error, is
\* not raised to the caller, and no method of the handler is called again.
C27_WarningsSkippedErrorsLogged ==
    lastCall = "lambda_handler" =>
        /\ raised = "none"
        /\ caught \in {"none", "UserWarning"} => ExceptionEntries(handlerLog) = {}
        /\ caught \notin {"none", "UserWarning"} =>
               /\ Cardinality(ExceptionEntries(handlerLog)) = 1
               /\ \A i \in ExceptionEntries(handlerLog) :
                      /\ handlerLog[i].file = event.bucket \o <<"/">> \o UnquotePlus(event.key)
                      /\ handlerLog[i].event = event.eventName
                      /\ handlerLog[i].error = caught
        /\ \A method \in {"from_s3", "add_model_output", "delete_model_output"} :
               Count(calls, method) <= 1

\* a creation event whose raw file could not be read has been logged as an error
C27_Witness ==
    /\ lastCall = "lambda_handler"
    /\ caught = "OSError"
    /\ calls = <<"from_s3", "add_model_output">>
    /\ Cardinality(ExceptionEntries(handlerLog)) = 1
    /\ raised = "none"

-----------------------------------------------------------------------------
(* Properties of a Parquet source, checked under SpecTable *)

\* C28: in the table read from a Parquet file the null tokens are not
\* normalized: a cell of location or output_type_id is null exactly when it is
\* null in the source, and a cell that is not null holds the string form of the
\* stored value, also when that value is the empty string or NA.
C28_ParquetKeepsNullTokens ==
    (lastCall \in {"read_file", "add_columns", "write_parquet"} /\ mo.file_type # CsvExt) =>
        \A i \in 1..Len(model_output_file.columns) :
            model_output_file.columns[i].name \in StringColumns =>
                \A r \in 1..Len(model_output_file.columns[i].cells) :
                    LET stored == model_output_file.columns[i].cells[r]
                        cell   == model_output_table[i].cells[r]
                    IN  /\ cell.null = stored.null
                        /\ ~stored.null => cell.v = stored.v

\* a Parquet file read whose location column holds the string NA and a null
C28_Witness ==
    /\ lastCall = "read_file"
    /\ mo.file_type = ParquetExt
    /\ \E i \in 1..Len(model_output_file.columns) :
          /\ model_output_file.columns[i].name = "location"
          /\ model_output_file.columns[i].type = "string"
          /\ model_output_file.columns[i].cells = <<Cell(<<"N", "A">>), NullCell>>
          /\ model_output_table[i].cells = <<Cell(<<"N", "A">>), NullCell>>

-----------------------------------------------------------------------------
(* Properties of names with special characters, checked under SpecParse *)

Special == {" ", "á"}

Chars(s) == {s[i] : i \in 1..Len(s)}

-----------------------------------------------------------------------------
(* The raw file and the output file, checked under Spec *)

\* C30: for every handler built by from_s3 the path the output is written to
\* and the path that is deleted differ from the path of the raw file, so no
\* write and no delete of add_model_output or delete_model_output is aimed at
\* the raw file, also when the raw file is a .parquet file.
C30_OutputIsNotInput ==
    mo.status = "ok" =>
        /\ WritePath(mo) # mo.input_file
        /\ DeletePath(mo) # mo.input_file
        /\ \A i \in 1..Len(ioLog) :
               ioLog[i].op \in {"open_output_stream", "delete_file"}
               => ioLog[i].path # mo.input_file
        /\ \A o \in store :
               o.content # StaleTable => o.path # o.content.source

\* the output of a raw .parquet file has been written
C30_Witness ==
    /\ lastCall = "add_model_output"
    /\ mo.status = "ok"
    /\ mo.file_type = ParquetExt
    /\ ObjectsAt(store, WritePath(mo)) = {[path |-> WritePath(mo), content |-> TransformedTable(mo)]}

====
